---- MODULE Spec2Model ----
(***************************************************************************)
(* Model of the tic-tac-toe component of src/components/TicTacToe.tsx:     *)
(* the outcome evaluator (checkWinner, checkDraw), the move selector       *)
(* (minimax, getBestMove) and the React component that drives them         *)
(* (handleCellPress, resetGame, the useEffect that calls makeAiMove and    *)
(* the setTimeout callback makeAiMove schedules).                          *)
(***************************************************************************)
EXTENDS Integers, Sequences, FiniteSets, TLC

(***************************************************************************)
(* Bounds of the model.                                                    *)
(***************************************************************************)
\* Math.random() is modelled as k / RandRes for k in 0 .. RandRes - 1.
RandRes == 10
\* Most user events (presses of a cell or of a button) that fit into the
\* 500 ms delay of one setTimeout callback.
MaxAge == 2
\* The human presses the cells 0 .. MaxCell.
MaxCell == 2

(***************************************************************************)
(* Types and constants of the source.                                      *)
(***************************************************************************)
null == "null"
Cells == 0 .. 8
Player == {"X", "O", null}
GameMode == {"pvp", "pva"}
Difficulty == {"easy", "medium", "hard"}
\* JavaScript's Infinity: any integer above every search score (|score| <= 10).
Infinity == 1000
Rand == 0 .. (RandRes - 1)

WINNING_COMBINATIONS ==
  << <<0, 1, 2>>, <<3, 4, 5>>, <<6, 7, 8>>,
     <<0, 3, 6>>, <<1, 4, 7>>, <<2, 5, 8>>,
     <<0, 4, 8>>, <<2, 4, 6>> >>

\* Array(9).fill(null)
EmptyBoard == [i \in Cells |-> null]

Max(a, b) == IF a >= b THEN a ELSE b
Min(a, b) == IF a <= b THEN a ELSE b

(***************************************************************************)
(* checkWinner: the for-loop over WINNING_COMBINATIONS, written out in the *)
(* order of the array; the first combination that matches returns.         *)
(***************************************************************************)
\* Mutant: the third cell of the combination is not compared.
lineWinsTwoCells(b, c1, c2, c3) == b[c1] # null /\ b[c1] = b[c2]

\* board[a] && board[a] === board[b] && board[a] === board[c]
lineWins(b, c1, c2, c3) == b[c1] # null /\ b[c1] = b[c2] /\ b[c1] = b[c3]

checkWinner(b) ==
  IF lineWins(b, 0, 1, 2) THEN b[0]
  ELSE IF lineWins(b, 3, 4, 5) THEN b[3]
  ELSE IF lineWins(b, 6, 7, 8) THEN b[6]
  ELSE IF lineWins(b, 0, 3, 6) THEN b[0]
  ELSE IF lineWins(b, 1, 4, 7) THEN b[1]
  ELSE IF lineWins(b, 2, 5, 8) THEN b[2]
  ELSE IF lineWins(b, 0, 4, 8) THEN b[0]
  ELSE IF lineWins(b, 2, 4, 6) THEN b[2]
  ELSE null

\* Mutant: the board.every(...) test is dropped.
checkDrawNoEvery(b) == checkWinner(b) = null

\* board.every(cell => cell !== null) && !checkWinner(board)
checkDraw(b) == (\A i \in Cells : b[i] # null) /\ checkWinner(b) = null

(***************************************************************************)
(* minimax.  The source mutates the array it is given (board[i] = 'O',     *)
(* recurse, board[i] = null), so every call returns the score together     *)
(* with the array as the call leaves it.                                   *)
(***************************************************************************)
RECURSIVE minimax(_, _, _, _, _)
RECURSIVE maxLoop(_, _, _, _, _, _)
RECURSIVE minLoop(_, _, _, _, _, _)

\* Mutant: a win of O is scored like a win of X.
minimaxWrongSign(b, depth, isMaximizing, alpha, beta) ==
  LET w == checkWinner(b) IN
  IF w = "O" THEN [score |-> depth - 10, board |-> b]
  ELSE IF w = "X" THEN [score |-> depth - 10, board |-> b]
  ELSE IF checkDraw(b) THEN [score |-> 0, board |-> b]
  ELSE IF isMaximizing THEN maxLoop(b, depth, alpha, beta, 0, -Infinity)
  ELSE minLoop(b, depth, alpha, beta, 0, Infinity)

minimax(b, depth, isMaximizing, alpha, beta) ==
  LET w == checkWinner(b) IN
  IF w = "O" THEN [score |-> 10 - depth, board |-> b]
  ELSE IF w = "X" THEN [score |-> depth - 10, board |-> b]
  ELSE IF checkDraw(b) THEN [score |-> 0, board |-> b]
  ELSE IF isMaximizing THEN maxLoop(b, depth, alpha, beta, 0, -Infinity)
  ELSE minLoop(b, depth, alpha, beta, 0, Infinity)

\* Mutant: the alpha-beta break leaves the loop before board[i] = null.
maxLoopBreakFirst(b, depth, alpha, beta, i, bestScore) ==
  IF i >= 9 THEN [score |-> bestScore, board |-> b]
  ELSE IF b[i] = null
  THEN LET r == minimax([b EXCEPT ![i] = "O"], depth + 1, FALSE, alpha, beta)
           restored == [r.board EXCEPT ![i] = null]
           best == Max(r.score, bestScore)
           a == Max(alpha, r.score)
       IN IF beta <= a
          THEN [score |-> best, board |-> r.board]
          ELSE maxLoop(restored, depth, a, beta, i + 1, best)
  ELSE maxLoop(b, depth, alpha, beta, i + 1, bestScore)

\* The maximizing loop from index i on, with the running bestScore and alpha.
maxLoop(b, depth, alpha, beta, i, bestScore) ==
  IF i >= 9 THEN [score |-> bestScore, board |-> b]
  ELSE IF b[i] = null
  THEN LET r == minimax([b EXCEPT ![i] = "O"], depth + 1, FALSE, alpha, beta)
           restored == [r.board EXCEPT ![i] = null]
           best == Max(r.score, bestScore)
           a == Max(alpha, r.score)
       IN IF beta <= a
          THEN [score |-> best, board |-> restored]
          ELSE maxLoop(restored, depth, a, beta, i + 1, best)
  ELSE maxLoop(b, depth, alpha, beta, i + 1, bestScore)

\* Mutant: Math.max in place of Math.min for the running bestScore.
minLoopTakesMax(b, depth, alpha, beta, i, bestScore) ==
  IF i >= 9 THEN [score |-> bestScore, board |-> b]
  ELSE IF b[i] = null
  THEN LET r == minimax([b EXCEPT ![i] = "X"], depth + 1, TRUE, alpha, beta)
           restored == [r.board EXCEPT ![i] = null]
           best == Max(r.score, bestScore)
           bt == Min(beta, r.score)
       IN IF bt <= alpha
          THEN [score |-> best, board |-> restored]
          ELSE minLoop(restored, depth, alpha, bt, i + 1, best)
  ELSE minLoop(b, depth, alpha, beta, i + 1, bestScore)

\* Mutant: the break test of the minimizing branch reads beta >= alpha.
minLoopBreakInverted(b, depth, alpha, beta, i, bestScore) ==
  IF i >= 9 THEN [score |-> bestScore, board |-> b]
  ELSE IF b[i] = null
  THEN LET r == minimax([b EXCEPT ![i] = "X"], depth + 1, TRUE, alpha, beta)
           restored == [r.board EXCEPT ![i] = null]
           best == Min(r.score, bestScore)
           bt == Min(beta, r.score)
       IN IF bt >= alpha
          THEN [score |-> best, board |-> restored]
          ELSE minLoop(restored, depth, alpha, bt, i + 1, best)
  ELSE minLoop(b, depth, alpha, beta, i + 1, bestScore)

\* The minimizing loop from index i on, with the running bestScore and beta.
minLoop(b, depth, alpha, beta, i, bestScore) ==
  IF i >= 9 THEN [score |-> bestScore, board |-> b]
  ELSE IF b[i] = null
  THEN LET r == minimax([b EXCEPT ![i] = "X"], depth + 1, TRUE, alpha, beta)
           restored == [r.board EXCEPT ![i] = null]
           best == Min(r.score, bestScore)
           bt == Min(beta, r.score)
       IN IF bt <= alpha
          THEN [score |-> best, board |-> restored]
          ELSE minLoop(restored, depth, alpha, bt, i + 1, best)
  ELSE minLoop(b, depth, alpha, beta, i + 1, bestScore)

(***************************************************************************)
(* getBestMove.  A result is [kind, move, board]: kind "number" with the   *)
(* index returned, or kind "undefined" when the array read is out of       *)
(* range; board is the array argument as the call leaves it.               *)
(***************************************************************************)
\* board.map(...).filter(...): the empty indices in increasing order.
RECURSIVE availableFrom(_, _)
availableFrom(b, i) ==
  IF i >= 9 THEN << >>
  ELSE IF b[i] = null THEN <<i>> \o availableFrom(b, i + 1)
  ELSE availableFrom(b, i + 1)

availableMoves(b) == availableFrom(b, 0)

\* Math.random() < p / 10 for the draw rand / RandRes.
randomBelow(rand, p) == rand * 10 < p * RandRes

\* Mutant: Math.ceil in place of Math.floor.
randomMoveCeil(b, rand) ==
  LET moves == availableMoves(b)
      idx == (rand * Len(moves) + RandRes - 1) \div RandRes
  IN IF idx < Len(moves)
     THEN [kind |-> "number", move |-> moves[idx + 1], board |-> b]
     ELSE [kind |-> "undefined", move |-> -1, board |-> b]

\* availableMoves[Math.floor(Math.random() * availableMoves.length)]
randomMove(b, rand) ==
  LET moves == availableMoves(b)
      idx == (rand * Len(moves)) \div RandRes
  IN IF idx < Len(moves)
     THEN [kind |-> "number", move |-> moves[idx + 1], board |-> b]
     ELSE [kind |-> "undefined", move |-> -1, board |-> b]

RECURSIVE searchLoop(_, _, _, _)

\* Mutant: score >= bestScore, so the last of several best cells is kept.
searchLoopLastBest(b, i, bestMove, bestScore) ==
  IF i >= 9 THEN [kind |-> "number", move |-> bestMove, board |-> b]
  ELSE IF b[i] = null
  THEN LET r == minimax([b EXCEPT ![i] = "O"], 0, FALSE, -Infinity, Infinity)
           restored == [r.board EXCEPT ![i] = null]
       IN IF r.score >= bestScore
          THEN searchLoop(restored, i + 1, i, r.score)
          ELSE searchLoop(restored, i + 1, bestMove, bestScore)
  ELSE searchLoop(b, i + 1, bestMove, bestScore)

\* Mutant: the position after O's mark is scored as if O moved again.
searchLoopWrongTurn(b, i, bestMove, bestScore) ==
  IF i >= 9 THEN [kind |-> "number", move |-> bestMove, board |-> b]
  ELSE IF b[i] = null
  THEN LET r == minimax([b EXCEPT ![i] = "O"], 0, TRUE, -Infinity, Infinity)
           restored == [r.board EXCEPT ![i] = null]
       IN IF r.score > bestScore
          THEN searchLoop(restored, i + 1, i, r.score)
          ELSE searchLoop(restored, i + 1, bestMove, bestScore)
  ELSE searchLoop(b, i + 1, bestMove, bestScore)

\* The loop of the search branch from index i on.
searchLoop(b, i, bestMove, bestScore) ==
  IF i >= 9 THEN [kind |-> "number", move |-> bestMove, board |-> b]
  ELSE IF b[i] = null
  THEN LET r == minimax([b EXCEPT ![i] = "O"], 0, FALSE, -Infinity, Infinity)
           restored == [r.board EXCEPT ![i] = null]
       IN IF r.score > bestScore
          THEN searchLoop(restored, i + 1, i, r.score)
          ELSE searchLoop(restored, i + 1, bestMove, bestScore)
  ELSE searchLoop(b, i + 1, bestMove, bestScore)

\* Mutant: bestScore starts at 0, so that no cell is kept when every score
\* is 0 or less.
searchMoveFromZero(b) == searchLoop(b, 0, -1, 0)

\* let bestMove = -1; let bestScore = -Infinity; for (...) ...; return bestMove
searchMove(b) == searchLoop(b, 0, -1, -Infinity)

\* The boards the component's callbacks hand to getBestMove while the human
\* presses the cells 0 .. MaxCell: in progress, one more X than O.
tabulated ==
  {b \in [Cells -> Player] :
     /\ \A i \in Cells : b[i] = "X" => i <= MaxCell
     /\ Cardinality({i \in Cells : b[i] = "X"})
          = Cardinality({i \in Cells : b[i] = "O"}) + 1
     /\ \E i \in Cells : b[i] = null
     /\ checkWinner(b) = null}

\* searchMove on those boards, evaluated once.
searchTable == [b \in {x : x \in tabulated} |-> searchMove(b)]

\* searchMove(b), read from the table where the table has it.
searchMoveOf(b) ==
  IF b \in DOMAIN searchTable THEN searchTable[b] ELSE searchMove(b)

\* Mutant: the test of the second branch reads difficulty !== 'easy', so
\* that Hard takes the random move with probability 0.3.
getBestMoveHardRandom(b, diff, rand1, rand2, searched) ==
  IF diff = "easy" /\ randomBelow(rand1, 7) THEN randomMove(b, rand2)
  ELSE IF diff # "easy" /\ randomBelow(rand1, 3) THEN randomMove(b, rand2)
  ELSE searched

\* searched is searchMove(b), handed in unevaluated so that one evaluation
\* serves every draw; rand1 and rand2 are the two Math.random() draws.
getBestMove(b, diff, rand1, rand2, searched) ==
  IF diff = "easy" /\ randomBelow(rand1, 7) THEN randomMove(b, rand2)
  ELSE IF diff = "medium" /\ randomBelow(rand1, 3) THEN randomMove(b, rand2)
  ELSE searched

(***************************************************************************)
(* State.  The first seven variables are the component's useState cells.   *)
(* timers is the queue of setTimeout callbacks scheduled by makeAiMove and *)
(* not yet fired, each with the values its closure captured; all have the  *)
(* same 500 ms delay, so they fire in the order they were scheduled; age   *)
(* counts the user events since the callback was scheduled.                *)
(* lastOp names the handler that ran last.  arg and call are the argument  *)
(* and the outcome of a direct call of one of the pure functions; again    *)
(* tells that the call was made a second time on the same argument.        *)
(***************************************************************************)
VARIABLES board, currentPlayer, gameWon, winner, gameMode, difficulty,
          isAiThinking, timers, lastOp, arg, call

vars == <<board, currentPlayer, gameWon, winner, gameMode, difficulty,
          isAiThinking, timers, lastOp, arg, call>>

compVars == <<board, currentPlayer, gameWon, winner, gameMode, difficulty,
              isAiThinking, timers, lastOp>>

NoCall ==
  [op |-> "none", diff |-> "none", winner |-> null, draw |-> FALSE,
   kind |-> "none", value |-> 0, after |-> EmptyBoard, again |-> FALSE]

\* The useState initial values; no callback is scheduled.
Init ==
  /\ board = EmptyBoard
  /\ currentPlayer = "X"
  /\ gameWon = FALSE
  /\ winner = null
  /\ gameMode = "pva"
  /\ difficulty = "medium"
  /\ isAiThinking = FALSE
  /\ timers = << >>
  /\ lastOp = "init"
  /\ arg = EmptyBoard
  /\ call = NoCall

(***************************************************************************)
(* The component.  A handler's setState calls are batched into one render, *)
(* after which the useEffect runs on the rendered values.                  *)
(***************************************************************************)
\* The condition of the useEffect on the values just rendered; think is
\* isAiThinking as the handler left it.
aiTurn(think) ==
  gameMode' = "pva" /\ currentPlayer' = "O" /\ ~gameWon' /\ ~think

\* The useEffect after a render: makeAiMove(board) sets isAiThinking and
\* schedules the callback, which captures the rendered board and difficulty.
\* pending is the queue of callbacks as the handler left it.
useEffect(think, pending) ==
  IF aiTurn(think)
  THEN /\ isAiThinking' = TRUE
       /\ timers' = Append(pending, [currentBoard |-> board',
                                     difficulty |-> difficulty',
                                     age |-> 0])
  ELSE /\ isAiThinking' = think
       /\ timers' = pending

\* Mutant: the last branch does not call setCurrentPlayer.
finishMoveKeepsPlayer(newBoard, next) ==
  /\ board' = newBoard
  /\ IF checkWinner(newBoard) # null
     THEN /\ winner' = checkWinner(newBoard)
          /\ gameWon' = TRUE
          /\ currentPlayer' = currentPlayer
     ELSE IF checkDraw(newBoard)
     THEN /\ gameWon' = TRUE
          /\ UNCHANGED <<winner, currentPlayer>>
     ELSE UNCHANGED <<currentPlayer, winner, gameWon>>

\* The part shared by handleCellPress and the setTimeout callback: setBoard,
\* then the winner / draw / next player branches.
finishMove(newBoard, next) ==
  /\ board' = newBoard
  /\ IF checkWinner(newBoard) # null
     THEN /\ winner' = checkWinner(newBoard)
          /\ gameWon' = TRUE
          /\ currentPlayer' = currentPlayer
     ELSE IF checkDraw(newBoard)
     THEN /\ gameWon' = TRUE
          /\ UNCHANGED <<winner, currentPlayer>>
     ELSE /\ currentPlayer' = next
          /\ UNCHANGED <<winner, gameWon>>

\* A user event fits into the delay of every callback still scheduled.
userCanAct == \A k \in DOMAIN timers : timers[k].age < MaxAge

\* The callbacks scheduled, one user event later.
aged == [k \in DOMAIN timers |-> [timers[k] EXCEPT !.age = @ + 1]]

handleCellPress(index) ==
  /\ userCanAct
  /\ board[index] = null
  /\ ~gameWon
  /\ ~isAiThinking
  /\ ~(gameMode = "pva" /\ currentPlayer = "O")
  /\ finishMove([board EXCEPT ![index] = currentPlayer],
                IF currentPlayer = "X" THEN "O" ELSE "X")
  /\ UNCHANGED <<gameMode, difficulty>>
  /\ useEffect(isAiThinking, aged)
  /\ lastOp' = "press"
  /\ UNCHANGED <<arg, call>>

\* newBoard[aiMove] = 'O' on the copy: an index outside 0..8 or undefined
\* sets no cell.
placeO(b, res) ==
  IF res.kind = "number" /\ res.move \in Cells
  THEN [b EXCEPT ![res.move] = "O"]
  ELSE b

\* Mutant: the callback ends without setIsAiThinking(false).
aiMoveCallbackStaysThinking ==
  /\ timers # << >>
  /\ LET t == Head(timers) IN
     \E res \in LET searched == searchMoveOf(t.currentBoard) IN
                { getBestMove(t.currentBoard, t.difficulty, rand1, rand2,
                              searched) : rand1 \in Rand, rand2 \in Rand } :
       finishMove(placeO(t.currentBoard, res), "X")
  /\ UNCHANGED <<gameMode, difficulty>>
  /\ useEffect(isAiThinking, Tail(timers))
  /\ lastOp' = "timer"
  /\ UNCHANGED <<arg, call>>

\* The callback makeAiMove scheduled first fires, on the board and the
\* difficulty its closure captured.
aiMoveCallback ==
  /\ timers # << >>
  /\ LET t == Head(timers) IN
     \E res \in LET searched == searchMoveOf(t.currentBoard) IN
                { getBestMove(t.currentBoard, t.difficulty, rand1, rand2,
                              searched) : rand1 \in Rand, rand2 \in Rand } :
       finishMove(placeO(t.currentBoard, res), "X")
  /\ UNCHANGED <<gameMode, difficulty>>
  /\ useEffect(FALSE, Tail(timers))
  /\ lastOp' = "timer"
  /\ UNCHANGED <<arg, call>>

\* resetGame, after the setGameMode or setDifficulty of the button pressed.
resetGame ==
  /\ userCanAct
  /\ board' = EmptyBoard
  /\ currentPlayer' = "X"
  /\ gameWon' = FALSE
  /\ winner' = null
  /\ useEffect(FALSE, aged)
  /\ lastOp' = "reset"
  /\ UNCHANGED <<arg, call>>

\* The New Game button.
NewGame ==
  /\ UNCHANGED <<gameMode, difficulty>>
  /\ resetGame

\* The two mode buttons.
SetGameMode(mode) ==
  /\ gameMode' = mode
  /\ UNCHANGED difficulty
  /\ resetGame

\* The difficulty buttons, rendered in Player-vs-AI mode only.
SetDifficulty(diff) ==
  /\ gameMode = "pva"
  /\ difficulty' = diff
  /\ UNCHANGED gameMode
  /\ resetGame

Next ==
  \/ \E index \in 0 .. MaxCell : handleCellPress(index)
  \/ aiMoveCallback
  \/ NewGame
  \/ \E mode \in GameMode : SetGameMode(mode)
  \/ \E diff \in Difficulty : SetDifficulty(diff)

Spec == Init /\ [][Next]_vars

\* A callback handed to setTimeout is run once its delay has passed: a
\* scheduled callback does not stay scheduled forever.  The user's events
\* are under no such obligation.  This is weak fairness of aiMoveCallback,
\* written out: aiMoveCallback is enabled exactly when timers is not empty,
\* and its steps are the steps that set lastOp to "timer".
TimersFire == []<>(timers = << >>) \/ []<><<lastOp' = "timer">>_vars

SpecFair == Init /\ [][Next]_vars /\ TimersFire

(***************************************************************************)
(* One game on Hard: the human's presses and the AI's replies, no reset.   *)
(***************************************************************************)
InitHard ==
  /\ board = EmptyBoard
  /\ currentPlayer = "X"
  /\ gameWon = FALSE
  /\ winner = null
  /\ gameMode = "pva"
  /\ difficulty = "hard"
  /\ isAiThinking = FALSE
  /\ timers = << >>
  /\ lastOp = "init"
  /\ arg = EmptyBoard
  /\ call = NoCall

NextHard ==
  \/ \E index \in Cells : handleCellPress(index)
  \/ aiMoveCallback

SpecHard == InitHard /\ [][NextHard]_vars

(***************************************************************************)
(* Direct calls of the pure functions.  checkWinner and checkDraw are      *)
(* called on every board over {null, X, O}^9; getBestMove and minimax on   *)
(* every position of a game, finished or not, X having moved first.        *)
(***************************************************************************)
\* Build the next argument: one more mark, X or O, on an empty cell.
PlaceMark(i, m) ==
  /\ arg[i] = null
  /\ arg' = [arg EXCEPT ![i] = m]
  /\ call' = NoCall
  /\ UNCHANGED compVars

\* Build the next argument as a game does: while no line is complete, the
\* player to move marks an empty cell.
PlayMark(i) ==
  /\ arg[i] = null
  /\ checkWinner(arg) = null
  /\ arg' = [arg EXCEPT ![i] =
               IF Cardinality({j \in Cells : arg[j] = "X"})
                    = Cardinality({j \in Cells : arg[j] = "O"})
               THEN "X" ELSE "O"]
  /\ call' = NoCall
  /\ UNCHANGED compVars

\* evaluate: checkWinner(arg) and checkDraw(arg).
CallEvaluate ==
  /\ call = NoCall
  /\ call' = [NoCall EXCEPT !.op = "evaluate",
                            !.winner = checkWinner(arg),
                            !.draw = checkDraw(arg),
                            !.after = arg]
  /\ UNCHANGED <<compVars, arg>>

\* getBestMove(arg, diff) under every outcome of the draws rand1, rand2.
CallGetBestMove ==
  /\ call = NoCall
  /\ call' \in
       LET searched == searchMove(arg) IN
       { LET r == getBestMove(arg, diff, rand1, rand2, searched)
         IN [NoCall EXCEPT !.op = "getBestMove", !.diff = diff,
                           !.kind = r.kind, !.value = r.move,
                           !.after = r.board] :
         diff \in Difficulty, rand1 \in Rand, rand2 \in Rand }
  /\ UNCHANGED <<compVars, arg>>

\* minimax(arg, 0, false): the call getBestMove makes, default window.
CallMinimax ==
  /\ call = NoCall
  /\ call' \in
       { LET r == minimax(arg, 0, FALSE, -Infinity, Infinity)
         IN [NoCall EXCEPT !.op = "minimax", !.kind = "number",
                           !.value = r.score, !.after = r.board] }
  /\ UNCHANGED <<compVars, arg>>

NextEval ==
  \/ \E i \in Cells, m \in {"X", "O"} : PlaceMark(i, m)
  \/ CallEvaluate

SpecEval == Init /\ [][NextEval]_vars

NextMove ==
  \/ \E i \in Cells : PlayMark(i)
  \/ CallGetBestMove
  \/ CallMinimax

SpecMove == Init /\ [][NextMove]_vars

(***************************************************************************)
(* Two calls in a row on the same board, each with its own draws of        *)
(* Math.random(): the boards are those the component hands to getBestMove. *)
(***************************************************************************)
InitTwice ==
  /\ board = EmptyBoard
  /\ currentPlayer = "X"
  /\ gameWon = FALSE
  /\ winner = null
  /\ gameMode = "pva"
  /\ difficulty = "medium"
  /\ isAiThinking = FALSE
  /\ timers = << >>
  /\ lastOp = "init"
  /\ arg \in tabulated
  /\ call = NoCall

\* The call made last is made once more on the same array, with fresh draws.
CallAgain ==
  /\ call.op \in {"evaluate", "getBestMove"}
  /\ call' \in
       IF call.op = "evaluate"
       THEN { [NoCall EXCEPT !.op = "evaluate",
                             !.winner = checkWinner(arg),
                             !.draw = checkDraw(arg),
                             !.after = arg, !.again = TRUE] }
       ELSE LET searched == searchMoveOf(arg) IN
            { LET r == getBestMove(arg, call.diff, rand1, rand2, searched)
              IN [NoCall EXCEPT !.op = "getBestMove", !.diff = call.diff,
                                !.kind = r.kind, !.value = r.move,
                                !.after = r.board, !.again = TRUE] :
              rand1 \in Rand, rand2 \in Rand }
  /\ UNCHANGED <<compVars, arg>>

NextTwice ==
  \/ CallEvaluate
  \/ CallGetBestMove
  \/ CallAgain

SpecTwice == InitTwice /\ [][NextTwice]_vars

(***************************************************************************)
(* Vocabulary of the properties, stated without the functions above.       *)
(***************************************************************************)
Lines == 1 .. 8
Cell(k, n) == WINNING_COMBINATIONS[k][n]
LineCells(k) == {Cell(k, 1), Cell(k, 2), Cell(k, 3)}

\* Line k holds three equal marks.
Complete(b, k) == b[Cell(k, 1)] # null /\ \A c \in LineCells(k) : b[c] = b[Cell(k, 1)]
SomeComplete(b) == \E k \in Lines : Complete(b, k)
Empties(b) == {i \in Cells : b[i] = null}
InProgress(b) == ~SomeComplete(b) /\ Empties(b) # {}

\* The empty cells that complete a line on which m has two marks.
Threats(b, m) ==
  {i \in Empties(b) :
     \E k \in Lines : i \in LineCells(k) /\ \A c \in LineCells(k) \ {i} : b[c] = m}

HardCall == call.op = "getBestMove" /\ call.diff = "hard"

\* The value of position b for O under full-depth play without pruning: a
\* line of O is worth 10 - depth, a line of X depth - 10, a full board 0;
\* otherwise the mover (O if isMaximizing, else X) takes the best of all
\* empty cells, O the greatest value and X the least.
RECURSIVE Exhaustive(_, _, _)
Exhaustive(b, depth, isMaximizing) ==
  IF \E k \in Lines : \A c \in LineCells(k) : b[c] = "O" THEN 10 - depth
  ELSE IF \E k \in Lines : \A c \in LineCells(k) : b[c] = "X" THEN depth - 10
  ELSE IF Empties(b) = {} THEN 0
  ELSE LET values == { Exhaustive([b EXCEPT ![i] = IF isMaximizing THEN "O" ELSE "X"],
                                  depth + 1, ~isMaximizing) : i \in Empties(b) }
       IN IF isMaximizing
          THEN CHOOSE v \in values : \A u \in values : u <= v
          ELSE CHOOSE v \in values : \A u \in values : v <= u

\* b is an in-progress board with one more O on a cell that was empty.
AfterOMove(b) ==
  \E i \in Cells : b[i] = "O" /\ InProgress([b EXCEPT ![i] = null])

\* C1: with every O move chosen by getBestMove on Hard and X pressing any
\* empty cell, X never completes a line: no board has checkWinner = X, and a
\* finished game is a win of O or a draw.
C1_HardNeverLoses ==
  /\ checkWinner(board) # "X"
  /\ ~\E k \in Lines : \A c \in LineCells(k) : board[c] = "X"
  /\ gameWon => (winner = "O" \/ (winner = null /\ Empties(board) = {}))

\* A game on Hard that ended in a draw, the AI having moved four times.
C1_Witness ==
  /\ gameWon /\ winner = null /\ Empties(board) = {}
  /\ Cardinality({i \in Cells : board[i] = "O"}) = 4

\* C2: on a board in progress getBestMove returns, for every difficulty and
\* every draw, the index of an empty cell; with one empty cell, that cell.
C2_ReturnsEmptyCell ==
  (call.op = "getBestMove" /\ InProgress(arg)) =>
     /\ call.kind = "number"
     /\ call.value \in Empties(arg)
     /\ Cardinality(Empties(arg)) = 1 => Empties(arg) = {call.value}

\* getBestMove on Easy has returned the only empty cell of a board in progress.
C2_Witness ==
  /\ call.op = "getBestMove" /\ call.diff = "easy"
  /\ InProgress(arg) /\ Cardinality(Empties(arg)) = 1
  /\ call.kind = "number" /\ Empties(arg) = {call.value}

\* C3: checkWinner returns the mark of the first complete line in the order
\* of WINNING_COMBINATIONS, and null exactly when no line is complete.
C3_FirstCompleteLine ==
  call.op = "evaluate" =>
     /\ \A k \in Lines :
          (Complete(arg, k) /\ \A j \in 1 .. (k - 1) : ~Complete(arg, j))
             => call.winner = arg[Cell(k, 1)]
     /\ call.winner = null <=> ~SomeComplete(arg)

\* checkWinner has run on a board with complete lines of both marks, the
\* first of them of O.
C3_Witness ==
  /\ call.op = "evaluate" /\ call.winner = "O"
  /\ \E k \in Lines : Complete(arg, k) /\ arg[Cell(k, 1)] = "X"

\* C4: on a board without a complete line checkDraw holds exactly when no
\* cell is empty, and the board is in progress (checkWinner null, checkDraw
\* false) exactly when some cell is empty.
C4_DrawOrInProgress ==
  (call.op = "evaluate" /\ ~SomeComplete(arg)) =>
     /\ call.draw <=> Empties(arg) = {}
     /\ (call.winner = null /\ ~call.draw) <=> Empties(arg) # {}

\* checkDraw has returned true on a full board without a complete line.
C4_Witness ==
  call.op = "evaluate" /\ ~SomeComplete(arg) /\ Empties(arg) = {} /\ call.draw

C5_Case ==
  HardCall /\ InProgress(arg) /\ Threats(arg, "X") # {} /\ Threats(arg, "O") = {}

\* C5 as stated: when X threatens to complete a line and O cannot complete
\* one, getBestMove on Hard returns a cell that blocks a threat of X.
C5_BlocksAnyThreat == C5_Case => call.value \in Threats(arg, "X")

\* C5: when X threatens to complete a line through exactly one empty cell
\* and O cannot complete a line, getBestMove on Hard returns that cell.
C5_BlocksSingleThreat ==
  (C5_Case /\ Cardinality(Threats(arg, "X")) = 1) => Threats(arg, "X") = {call.value}

\* getBestMove on Hard has blocked the one threat of X, which is not the
\* lowest empty cell.
C5_Witness ==
  /\ C5_Case /\ Threats(arg, "X") = {call.value}
  /\ \E i \in Empties(arg) : i < call.value

\* C6: when O has two marks on a line whose third cell is empty, getBestMove
\* on Hard returns the lowest cell that completes a line of O, and the board
\* with O on it has checkWinner = O.
C6_TakesLowestWin ==
  (HardCall /\ InProgress(arg) /\ Threats(arg, "O") # {}) =>
     /\ call.value \in Threats(arg, "O")
     /\ \A i \in Threats(arg, "O") : call.value <= i
     /\ checkWinner([arg EXCEPT ![call.value] = "O"]) = "O"

\* getBestMove on Hard has run where O can complete a line on two cells and
\* a lower cell is empty.
C6_Witness ==
  /\ HardCall /\ InProgress(arg) /\ Cardinality(Threats(arg, "O")) = 2
  /\ \E i \in Empties(arg) : \A j \in Threats(arg, "O") : i < j

C7_Board == [i \in Cells |-> IF i \in {0, 1} THEN "X" ELSE IF i \in {3, 4} THEN "O" ELSE null]

\* C7 as stated: on [X, X, null, O, O, null, null, null, null] getBestMove
\* on Hard returns 2.
C7_ReturnsTwo == (HardCall /\ arg = C7_Board) => call.value = 2

\* C7: on [X, X, null, O, O, null, null, null, null] getBestMove on Hard
\* returns 5, the cell that completes the line 3, 4, 5 of O.
C7_ReturnsFive == (HardCall /\ arg = C7_Board) => (call.kind = "number" /\ call.value = 5)

\* getBestMove on Hard has run on that board.
C7_Witness == HardCall /\ arg = C7_Board /\ call.value = 5

\* C8: called on a board that is not in progress (no empty cell, or a line
\* already complete), getBestMove signals an error and returns no move.
C8_FailsFast ==
  (call.op = "getBestMove" /\ ~InProgress(arg)) => call.kind = "error"

\* C9: the array handed to getBestMove, and the array handed to minimax, is
\* cell for cell the same after the call as before it.
C9_BoardRestored ==
  call.op \in {"getBestMove", "minimax"} => call.after = arg

\* minimax has returned from a board with six empty cells, which it left as
\* it was.
C9_Witness ==
  call.op = "minimax" /\ Cardinality(Empties(arg)) = 6 /\ call.after = arg

\* C10: outside a reset, every change of the board fills one empty cell
\* with X or O and leaves the other eight cells as they were.
C10_OneCellPerChange ==
  [][(lastOp' # "reset" /\ board' # board) =>
        \E i \in Cells :
          /\ board[i] = null
          /\ board'[i] \in {"X", "O"}
          /\ \A j \in Cells \ {i} : board'[j] = board[j]]_vars

\* C11: a second evaluation of checkWinner and checkDraw, and a second call
\* of getBestMove on Hard, on the same board returns what the first returned,
\* whatever the draws of Math.random() in either call.
C11_SameResultTwice ==
  [][(/\ call.op \in {"evaluate", "getBestMove"}
      /\ call.op = "getBestMove" => call.diff = "hard"
      /\ call'.op = call.op /\ call'.diff = call.diff /\ arg' = arg)
        => /\ call'.winner = call.winner
           /\ call'.draw = call.draw
           /\ call'.kind = call.kind
           /\ call'.value = call.value
           /\ call'.after = call.after]_vars

\* getBestMove on Hard has been called a second time on a board with eight
\* empty cells.
C11_Witness ==
  /\ HardCall /\ call.again
  /\ InProgress(arg) /\ Cardinality(Empties(arg)) = 8

\* C12: on a position reached by placing O on an empty cell of a board in
\* progress, minimax(board, 0, false) with the window -Infinity, Infinity
\* returns the value of the position under exhaustive play, without pruning.
C12_PruningKeepsScore ==
  (call.op = "minimax" /\ AfterOMove(arg)) => call.value = Exhaustive(arg, 0, FALSE)

\* minimax has scored 0 a position with seven empty cells, reached by O's
\* move.
C12_Witness ==
  /\ call.op = "minimax" /\ AfterOMove(arg)
  /\ Cardinality(Empties(arg)) = 7 /\ call.value = 0

\* The score the search gives the empty cell i of the board arg: minimax of
\* the board with O on i, depth 0, X to move.
C13_Score(i) ==
  minimax([arg EXCEPT ![i] = "O"], 0, FALSE, -Infinity, Infinity).score

\* C13: on a board in progress the search of getBestMove (every call on
\* Hard) returns an empty cell whose score is the greatest of all empty cells,
\* and every empty cell of lower index has a smaller score.
C13_LowestBestCell ==
  (HardCall /\ InProgress(arg)) =>
     /\ call.kind = "number" /\ call.value \in Empties(arg)
     /\ LET score == [j \in Empties(arg) |-> C13_Score(j)] IN
        \A j \in Empties(arg) :
          /\ score[j] <= score[call.value]
          /\ j < call.value => score[j] < score[call.value]

\* The search has returned a cell with a lower empty cell below it and a
\* higher empty cell of the same score above it.
C13_Witness ==
  /\ HardCall /\ InProgress(arg)
  /\ \E j \in Empties(arg) : j < call.value
  /\ \E j \in Empties(arg) : j > call.value /\ C13_Score(j) = C13_Score(call.value)

\* C14: in Player-vs-AI mode at most one callback of makeAiMove is scheduled
\* and not yet fired, and the board holds at most one O for each X.
C14_OnePendingCallback ==
  gameMode = "pva" =>
     /\ Len(timers) <= 1
     /\ Cardinality({i \in Cells : board[i] = "O"})
          <= Cardinality({i \in Cells : board[i] = "X"})

Count(b, m) == Cardinality({i \in Cells : b[i] = m})

\* C15: the board holds as many X as O or one X more, and while the game is
\* not over it is X's turn exactly when the counts are equal and O's turn
\* exactly when X has one more.
C15_MarksAlternate ==
  /\ Count(board, "X") - Count(board, "O") \in {0, 1}
  /\ ~gameWon =>
       /\ currentPlayer = "X" <=> Count(board, "X") = Count(board, "O")
       /\ currentPlayer = "O" <=> Count(board, "X") = Count(board, "O") + 1

\* The callback of an earlier game has fired after a reset: the game is not
\* over, the board holds one X and one O, and it is X's turn.
C15_Witness ==
  /\ lastOp = "timer" /\ ~gameWon /\ currentPlayer = "X"
  /\ Count(board, "X") = 1 /\ Count(board, "O") = 1

\* C16: gameWon is true exactly when the board has a complete line or no
\* empty cell, and winner is checkWinner(board).
C16_FlagsAgreeWithBoard ==
  /\ gameWon <=> (SomeComplete(board) \/ Empties(board) = {})
  /\ winner = checkWinner(board)

\* C17: from a state with gameWon true, a step that is not a reset (a cell
\* press or a callback of makeAiMove) leaves board, winner and currentPlayer
\* as they are.
C17_FrozenOnceWon ==
  [][(gameWon /\ lastOp' # "reset") =>
        (board' = board /\ winner' = winner /\ currentPlayer' = currentPlayer)]_vars

\* The enabling condition that TimersFire writes out: a callback can fire
\* exactly when one is scheduled.
C18_EnabledWhenScheduled == (ENABLED aiMoveCallback) <=> (timers # << >>)

\* C18: in Player-vs-AI mode, whenever it is O's turn and the game is not
\* over, the component later reaches a state in which it is X's turn or the
\* game is over, and isAiThinking is false, provided that scheduled callbacks
\* fire.
C18_AiTurnEnds ==
  (gameMode = "pva" /\ currentPlayer = "O" /\ ~gameWon)
     ~> ((currentPlayer = "X" \/ gameWon) /\ ~isAiThinking)

\* The AI has answered the human's second mark: the callback has fired, it
\* is X's turn again and isAiThinking is false.
C18_Witness ==
  /\ gameMode = "pva" /\ lastOp = "timer" /\ timers = << >>
  /\ currentPlayer = "X" /\ ~gameWon /\ ~isAiThinking
  /\ Count(board, "X") = 2 /\ Count(board, "O") = 2

\* C19: while gameMode is pvp, a step that changes the board is a reset or
\* a press of handleCellPress that puts the mark of currentPlayer on one
\* empty cell; no callback of makeAiMove changes it.
C19_NoAiMoveInPvp ==
  [][(gameMode = "pvp" /\ board' # board) =>
        \/ lastOp' = "reset"
        \/ /\ lastOp' = "press"
           /\ \E i \in Cells :
                board[i] = null /\ board' = [board EXCEPT ![i] = currentPlayer]]_vars

====
